---- MODULE Spec2Model ----
(***************************************************************************)
(* Model of the music-and-focus study app (src/app.py): the two retrying   *)
(* remote calls (load_test_from_gemini, load_music), the audio fallbacks   *)
(* and the five-page Streamlit session driven by st.session_state.         *)
(***************************************************************************)
EXTENDS Integers, Sequences, FiniteSets, TLC

VARIABLES
    gemini,                 \* one call of load_test_from_gemini, iteration by iteration
    music,                  \* one call of load_music, step by step
    page_number,            \* st.session_state.page_number
    user_info,              \* st.session_state.user_info
    music_params,           \* st.session_state.music_params
    test_answers,           \* st.session_state.test_answers
    generated_music_cache,  \* st.session_state.generated_music_cache
    test_content,           \* st.session_state["test_content_page_<n>"]
    radio,                  \* values of the radio widgets p<page>_q<i> of the page shown
    last_run,               \* what the last script run did (history)
    loads,                  \* number of remote generations per page since the last reset (history)
    pure                    \* one application of a pure function: its input and its result

callVars == <<gemini, music, pure>>
sessionVars == <<page_number, user_info, music_params, test_answers,
                 generated_music_cache, test_content, radio, last_run, loads>>
vars == <<gemini, music, page_number, user_info, music_params, test_answers,
          generated_music_cache, test_content, radio, last_run, loads, pure>>

\* Python's None
None == [none |-> TRUE]

(***************************************************************************)
(* Text: a Python str that the code inspects is a sequence of characters.  *)
(***************************************************************************)
UpperCase == <<"A","B","C","D","E","F","G","H","I","J","K","L","M","N","O","P","Q","R","S","T","U","V","W","X","Y","Z">>
LowerCase == <<"a","b","c","d","e","f","g","h","i","j","k","l","m","n","o","p","q","r","s","t","u","v","w","x","y","z">>
DigitChars == <<"0","1","2","3","4","5","6","7","8","9">>

\* str.lower() of one character
LowerChar(c) ==
    IF \E i \in 1..Len(UpperCase) : UpperCase[i] = c
    THEN LowerCase[CHOOSE i \in 1..Len(UpperCase) : UpperCase[i] = c]
    ELSE c

\* str.lower()
Lower(s) == [i \in 1..Len(s) |-> LowerChar(s[i])]

\* needle in hay
Contains(needle, hay) ==
    \E i \in 0..(Len(hay) - Len(needle)) : SubSeq(hay, i + 1, i + Len(needle)) = needle

\* str(n) for an integer n >= 0
RECURSIVE IntToStr(_)
IntToStr(n) ==
    IF n < 10 THEN <<DigitChars[n + 1]>>
    ELSE Append(IntToStr(n \div 10), DigitChars[(n % 10) + 1])

(***************************************************************************)
(* load_test_from_gemini: what one attempt of the remote operation can do. *)
(***************************************************************************)
\* Question lists a response body may carry (the code does not validate them).
Q(t, c) == [text |-> t, correct_response |-> c]

QuestionListSamples ==
    { <<>>,
      <<Q("q1", "Yes"), Q("q2", "No")>>,
      <<Q("q1", "Yes"), Q("q1", "No")>>,
      <<Q("", "yes")>> }

\* Character positions at which json.loads may reject a response body.
JsonErrorPositions == {0, 429}

\* The outcomes of the try block of one attempt (lines 158-169).
\*   client_error : st.secrets has no gemini key, generate_content is never reached
\*   api_error    : generate_content raises an API error "<code> <status>"
\*   exception    : generate_content raises another exception with the given text
\*   body         : generate_content answers; the body is invalid JSON at char pos
\*                  (pos >= 0) or a JSON object holding the fields present
GeminiOutcomes ==
    { [kind |-> "client_error"] }
    \cup { [kind |-> "api_error", code |-> 429,
            status |-> <<"R","E","S","O","U","R","C","E","_","E","X","H","A","U","S","T","E","D">>],
           [kind |-> "api_error", code |-> 503,
            status |-> <<"U","N","A","V","A","I","L","A","B","L","E">>] }
    \cup { [kind |-> "exception",
            text |-> <<"R","a","t","e"," ","L","i","m","i","t"," ","E","x","c","e","e","d","e","d">>] }
    \cup { [kind |-> "body", pos |-> p, has_text |-> FALSE, has_questions |-> FALSE,
            questions |-> <<>>] : p \in JsonErrorPositions }
    \cup { [kind |-> "body", pos |-> -1, has_text |-> FALSE, has_questions |-> TRUE,
            questions |-> <<Q("q1", "Yes")>>],
           [kind |-> "body", pos |-> -1, has_text |-> TRUE, has_questions |-> FALSE,
            questions |-> <<>>] }
    \cup { [kind |-> "body", pos |-> -1, has_text |-> TRUE, has_questions |-> TRUE,
            questions |-> q] : q \in QuestionListSamples }

\* The remote endpoint reported a rate limit (HTTP 429 or a rate-limit error).
RateLimited(o) ==
    \/ o.kind = "api_error" /\ o.code = 429
    \/ o.kind = "exception"

\* Does the try block raise on this outcome?
GeminiRaises(o) ==
    \/ o.kind \in {"client_error", "api_error", "exception"}
    \/ o.kind = "body" /\ (o.pos >= 0 \/ ~o.has_text \/ ~o.has_questions)

\* str(e) of the exception the try block raises on this outcome.
GeminiErrorMsg(o) ==
    CASE o.kind = "client_error" -> <<"'","g","e","m","i","n","i","'">>
      [] o.kind = "api_error" -> IntToStr(o.code) \o <<" ">> \o o.status
      [] o.kind = "exception" -> o.text
      [] o.kind = "body" /\ o.pos >= 0 ->
            <<"E","x","p","e","c","t","i","n","g"," ","v","a","l","u","e",":"," ","l","i","n","e"," ","1"," ","c","o","l","u","m","n"," ">>
            \o IntToStr(o.pos + 1) \o <<" ","(","c","h","a","r"," ">> \o IntToStr(o.pos) \o <<")">>
      [] o.kind = "body" /\ o.pos < 0 /\ ~o.has_text ->
            <<"'","g","e","n","e","r","a","t","e","d","_","t","e","x","t","'">>
      [] OTHER -> <<"'","q","u","e","s","t","i","o","n","s","'">>

\* "rate limit" in error_msg.lower() or "429" in error_msg
IsRateLimitMsg(error_msg) ==
    \/ Contains(<<"r","a","t","e"," ","l","i","m","i","t">>, Lower(error_msg))
    \/ Contains(<<"4","2","9">>, error_msg)

RateLimitText == "Error loading test (rate limit). Please try again later."
GenericErrorText == "Error loading test. Please try again."
Passage == "passage"

\* The sleep without the test for a remaining attempt.
GeminiSleepsAlways(retry) == 1

\* The success that does not leave the loop.
GeminiSuccessGoesOn(o) ==
    [invoked |-> 1, sleeps |-> 1, returns |-> FALSE, path |-> "none", ret |-> None]

\* The retry test of line 172.
GeminiShouldRetry(error_msg, attempt, max_retries) ==
    IsRateLimitMsg(error_msg) /\ attempt < max_retries

\* The sleep before the next attempt (line 174): 1 when the iteration sleeps.
GeminiSleeps(retry) == IF retry THEN 1 ELSE 0

\* Lines 166-169: the parsed body is returned as it is.
GeminiSuccess(o) ==
    [invoked |-> 1, sleeps |-> 0, returns |-> TRUE, path |-> "success",
     ret |-> [generated_text |-> Passage, questions |-> o.questions]]

\* One iteration of the for loop, on outcome o.
gemini_attempt(attempt, max_retries, o) ==
    LET invoked == IF o.kind = "client_error" THEN 0 ELSE 1 IN
    IF ~GeminiRaises(o)
    THEN GeminiSuccess(o)
    ELSE LET error_msg == GeminiErrorMsg(o)
             retry == GeminiShouldRetry(error_msg, attempt, max_retries)
         IN IF retry
            THEN [invoked |-> invoked, sleeps |-> GeminiSleeps(retry), returns |-> FALSE,
                  path |-> "none", ret |-> None]
            ELSE IF IsRateLimitMsg(error_msg)
            THEN [invoked |-> invoked, sleeps |-> GeminiSleeps(retry), returns |-> TRUE,
                  path |-> "rate_limit",
                  ret |-> [generated_text |-> RateLimitText, questions |-> <<>>]]
            ELSE [invoked |-> invoked, sleeps |-> GeminiSleeps(retry), returns |-> TRUE,
                  path |-> "generic",
                  ret |-> [generated_text |-> GenericErrorText, questions |-> <<>>]]

\* range(1, max_retries + 1): is there an iteration numbered attempt?
GeminiInRange(attempt, max_retries) == attempt <= max_retries


\* The loop written as range(max_retries + 1).
GeminiCallFromZero(max_retries) ==
    [pc |-> "loop", max_retries |-> max_retries, attempt |-> 0, invocations |-> 0,
     sleeps |-> 0, outcomes |-> <<>>, path |-> "none", ret |-> None,
     last_event |-> "none"]

\* State of a call of load_test_from_gemini that has not started its loop yet.
GeminiCall(max_retries) ==
    [pc |-> "loop", max_retries |-> max_retries, attempt |-> 1, invocations |-> 0,
     sleeps |-> 0, outcomes |-> <<>>, path |-> "none", ret |-> None,
     last_event |-> "none"]

GeminiIdle ==
    [pc |-> "idle", max_retries |-> 0, attempt |-> 0, invocations |-> 0,
     sleeps |-> 0, outcomes |-> <<>>, path |-> "none", ret |-> None,
     last_event |-> "none"]

\* The for loop of load_test_from_gemini (lines 156-181), one iteration per step.
\* When range(1, max_retries + 1) is used up the function ends without a return
\* statement, which gives None.
GeminiAttempt ==
    /\ gemini.pc = "loop"
    /\ IF GeminiInRange(gemini.attempt, gemini.max_retries)
       THEN \E o \in GeminiOutcomes :
              LET r == gemini_attempt(gemini.attempt, gemini.max_retries, o) IN
              gemini' = [gemini EXCEPT
                            !.pc = IF r.returns THEN "done" ELSE "loop",
                            !.attempt = IF r.returns THEN @ ELSE @ + 1,
                            !.invocations = @ + r.invoked,
                            !.sleeps = @ + r.sleeps,
                            !.outcomes = Append(@, o),
                            !.path = r.path,
                            !.ret = r.ret,
                            !.last_event = IF r.sleeps > 0 THEN "sleep"
                                           ELSE IF r.invoked > 0 THEN "invoke"
                                           ELSE "none"]
       ELSE gemini' = [gemini EXCEPT !.pc = "done", !.path = "fell_through", !.ret = None]
    /\ UNCHANGED <<music, pure, sessionVars>>

\* Every value load_test_from_gemini(max_retries) can return from iteration attempt on.
RECURSIVE GeminiReturnsFrom(_, _)
GeminiReturnsFrom(attempt, max_retries) ==
    IF ~GeminiInRange(attempt, max_retries) THEN {None}
    ELSE LET rs == { gemini_attempt(attempt, max_retries, o) : o \in GeminiOutcomes } IN
         { r.ret : r \in { x \in rs : x.returns } }
         \cup (IF \E x \in rs : ~x.returns
               THEN GeminiReturnsFrom(attempt + 1, max_retries)
               ELSE {})

\* max_retries=7 (line 148)
DefaultMaxRetries == 7

\* The values load_test_from_gemini() returns to render_test_page (line 483).
GeminiReturns == GeminiReturnsFrom(1, DefaultMaxRetries)


(***************************************************************************)
(* Audio: decode_prediction_to_wav_bytes and create_silent_audio.          *)
(* A WAV file is its header fields and its payload bytes; the silence      *)
(* asset's payload is nframes zero samples, not spelled out (silent).      *)
(***************************************************************************)
\* b''
EmptyBytes == [bytes |-> <<>>]

\* samplerate = 44100 (line 304)
SilenceRate == 44100
\* duration=30 (line 295)
SilenceDuration == 30

\* The bytes create_silent_audio returns: scipy writes a one-channel int16 file;
\* ok is false when building or writing the array raises (lines 313-315).
create_silent_audio(ok) ==
    IF ok
    THEN [framerate |-> SilenceRate, nchannels |-> 1, sampwidth |-> 2,
          nframes |-> SilenceRate * SilenceDuration, silent |-> TRUE, data |-> <<>>]
    ELSE EmptyBytes

\* framerate = 48000 (line 58)
LyriaRate == 48000

\* decode_prediction_to_wav_bytes that drops the last sample of every input.
decode_prediction_drops_last(pred) ==
    IF ~pred.b64_ok \/ Len(pred.raw) % 2 # 0 \/ Len(pred.raw) = 0 THEN None
    ELSE LET size == Len(pred.raw) \div 2
             kept == size - 1
         IN [framerate |-> LyriaRate, nchannels |-> 2, sampwidth |-> 2,
             nframes |-> kept \div 2, silent |-> FALSE,
             data |-> SubSeq(pred.raw, 1, 2 * kept)]

\* decode_prediction_to_wav_bytes: pred is the bytesBase64Encoded field, given as
\* whether base64 accepts it and the bytes it decodes to. np.frombuffer raises on
\* an odd byte count; an odd sample count loses its last sample.
decode_prediction_to_wav_bytes(pred) ==
    IF ~pred.b64_ok \/ Len(pred.raw) % 2 # 0 THEN None
    ELSE LET size == Len(pred.raw) \div 2
             kept == IF size % 2 # 0 THEN size - 1 ELSE size
         IN [framerate |-> LyriaRate, nchannels |-> 2, sampwidth |-> 2,
             nframes |-> kept \div 2, silent |-> FALSE,
             data |-> SubSeq(pred.raw, 1, 2 * kept)]

\* Python truth value of a decode result: None and b'' are false.
Truthy(b) == b # None /\ b # EmptyBytes

(***************************************************************************)
(* load_music                                                              *)
(***************************************************************************)
\* Outcomes of one requests.post + raise_for_status (lines 239-240).
MusicOutcomes ==
    { [kind |-> "ok", code |-> 200],
      [kind |-> "timeout", code |-> 0],
      [kind |-> "http_error", code |-> 429],
      [kind |-> "http_error", code |-> 403],
      [kind |-> "http_error", code |-> 500],
      [kind |-> "error", code |-> 0] }

\* Predictions a response may carry in bytesBase64Encoded.
PredictionSamples ==
    { [b64_ok |-> FALSE, raw |-> <<>>],
      [b64_ok |-> TRUE, raw |-> <<1, 2, 3>>],
      [b64_ok |-> TRUE, raw |-> <<1, 2, 3, 4>>],
      [b64_ok |-> TRUE, raw |-> <<1, 2, 3, 4, 5, 6>>] }

\* What response.json() of a 2xx answer can be (lines 270-278).
\*   invalid       : the body is not JSON
\*   not_object    : JSON, but not an object (data.get fails)
\*   no_predictions: the predictions list is missing or empty
\*   no_payload    : the first prediction has no bytesBase64Encoded
\*   payload       : the first prediction carries pred
MusicResponses ==
    { [kind |-> k, pred |-> [b64_ok |-> FALSE, raw |-> <<>>]] :
          k \in {"invalid", "not_object", "no_predictions", "no_payload"} }
    \cup { [kind |-> "payload", pred |-> p] : p \in PredictionSamples }

\* Lines 191-233: token, prompt, endpoint and payload. token_ok: the credential
\* exchange gave a token; secrets_ok: st.secrets["lyria"]["project_id"] exists.
music_start(token_ok, secrets_ok, silent_ok) ==
    IF ~token_ok
    THEN [returns |-> TRUE, ret |-> create_silent_audio(silent_ok), cause |-> "auth"]
    ELSE IF ~secrets_ok
    THEN [returns |-> TRUE, ret |-> create_silent_audio(silent_ok), cause |-> "unexpected"]
    ELSE [returns |-> FALSE, ret |-> None, cause |-> "none"]

\* The retry test with the timeout as the only failure retried.
MusicShouldRetryTimeout(o, attempt, max_retries) ==
    o.kind = "timeout" /\ attempt < max_retries

\* The retry test with HTTP 429 retried as well.
MusicShouldRetry429(o, attempt, max_retries) ==
    (o.kind \in {"timeout", "error"} \/ (o.kind = "http_error" /\ o.code = 429))
    /\ attempt < max_retries

\* The retry test of the except clauses of lines 242-266: which failures of the
\* request go on to another attempt.
MusicShouldRetry(o, attempt, max_retries) ==
    o.kind \in {"timeout", "error"} /\ attempt < max_retries

\* One iteration of the for loop of lines 237-266.
music_attempt(attempt, max_retries, o, silent_ok) ==
    IF o.kind = "ok"
    THEN [next |-> "break", sleeps |-> 0, ret |-> None, cause |-> "none"]
    ELSE IF MusicShouldRetry(o, attempt, max_retries)
    THEN [next |-> "continue", sleeps |-> 1, ret |-> None, cause |-> "none"]
    ELSE [next |-> "return", sleeps |-> 0, ret |-> create_silent_audio(silent_ok),
          cause |-> IF o.kind = "timeout" THEN "timeout"
                    ELSE IF o.kind = "http_error" THEN "http"
                    ELSE "exhausted"]

\* The decoded audio returned without the test of line 281.
MusicDecodedUnchecked(wav_bytes, silent_ok) == wav_bytes

\* Lines 281-285: the decoded audio, or silence when decoding gave nothing.
MusicDecoded(wav_bytes, silent_ok) ==
    IF Truthy(wav_bytes) THEN wav_bytes ELSE create_silent_audio(silent_ok)

\* Lines 269-293: parsing the response.
music_parse(resp, silent_ok) ==
    CASE resp.kind = "invalid" ->
            [ret |-> create_silent_audio(silent_ok), cause |-> "invalid_json"]
      [] resp.kind \in {"not_object", "no_payload"} ->
            [ret |-> create_silent_audio(silent_ok), cause |-> "unexpected"]
      [] resp.kind = "no_predictions" ->
            [ret |-> create_silent_audio(silent_ok), cause |-> "no_predictions"]
      [] OTHER ->
            LET wav_bytes == decode_prediction_to_wav_bytes(resp.pred) IN
            [ret |-> MusicDecoded(wav_bytes, silent_ok),
             cause |-> IF Truthy(wav_bytes) THEN "success" ELSE "undecodable"]

\* range(1, max_retries + 1)
MusicInRange(attempt, max_retries) == attempt <= max_retries

MusicCall(max_retries) ==
    [pc |-> "start", max_retries |-> max_retries, attempt |-> 1, requests |-> 0,
     sleeps |-> 0, outcomes |-> <<>>, cause |-> "none", ret |-> None]

MusicIdle ==
    [pc |-> "idle", max_retries |-> 0, attempt |-> 0, requests |-> 0,
     sleeps |-> 0, outcomes |-> <<>>, cause |-> "none", ret |-> None]

MusicStart ==
    /\ music.pc = "start"
    /\ \E token_ok \in BOOLEAN, secrets_ok \in BOOLEAN, silent_ok \in BOOLEAN :
          LET r == music_start(token_ok, secrets_ok, silent_ok) IN
          music' = [music EXCEPT !.pc = IF r.returns THEN "done" ELSE "loop",
                                 !.ret = r.ret, !.cause = r.cause]
    /\ UNCHANGED <<gemini, pure, sessionVars>>

\* When the range is used up without break or return, line 270 reads the unbound
\* name response: the NameError is caught at line 291.
MusicAttempt ==
    /\ music.pc = "loop"
    /\ IF MusicInRange(music.attempt, music.max_retries)
       THEN \E o \in MusicOutcomes, silent_ok \in BOOLEAN :
              LET r == music_attempt(music.attempt, music.max_retries, o, silent_ok) IN
              music' = [music EXCEPT
                           !.pc = CASE r.next = "break" -> "parse"
                                    [] r.next = "continue" -> "loop"
                                    [] OTHER -> "done",
                           !.attempt = IF r.next = "continue" THEN @ + 1 ELSE @,
                           !.requests = @ + 1,
                           !.sleeps = @ + r.sleeps,
                           !.outcomes = Append(@, o),
                           !.ret = r.ret,
                           !.cause = r.cause]
       ELSE \E silent_ok \in BOOLEAN :
              music' = [music EXCEPT !.pc = "done", !.cause = "unexpected",
                                     !.ret = create_silent_audio(silent_ok)]
    /\ UNCHANGED <<gemini, pure, sessionVars>>

MusicParse ==
    /\ music.pc = "parse"
    /\ \E resp \in MusicResponses, silent_ok \in BOOLEAN :
          LET r == music_parse(resp, silent_ok) IN
          music' = [music EXCEPT !.pc = "done", !.ret = r.ret, !.cause = r.cause]
    /\ UNCHANGED <<gemini, pure, sessionVars>>

\* Every value load_music can return once its loop is at iteration attempt.
RECURSIVE MusicReturnsFrom(_, _)
MusicReturnsFrom(attempt, max_retries) ==
    IF ~MusicInRange(attempt, max_retries)
    THEN { create_silent_audio(ok) : ok \in BOOLEAN }
    ELSE LET rs == { music_attempt(attempt, max_retries, o, ok) :
                        o \in MusicOutcomes, ok \in BOOLEAN } IN
         { r.ret : r \in { x \in rs : x.next = "return" } }
         \cup (IF \E x \in rs : x.next = "break"
               THEN { music_parse(resp, ok).ret : resp \in MusicResponses, ok \in BOOLEAN }
               ELSE {})
         \cup (IF \E x \in rs : x.next = "continue"
               THEN MusicReturnsFrom(attempt + 1, max_retries)
               ELSE {})

\* max_retries=3 (line 183)
MusicMaxRetries == 3

\* The values load_music(music_params) returns to render_test_page (line 494).
MusicReturns ==
    LET starts == { music_start(t, s, ok) : t \in BOOLEAN, s \in BOOLEAN, ok \in BOOLEAN } IN
    { r.ret : r \in { x \in starts : x.returns } }
    \cup (IF \E x \in starts : ~x.returns
          THEN MusicReturnsFrom(1, MusicMaxRetries)
          ELSE {})


(***************************************************************************)
(* The session: st.session_state and the pages.                            *)
(* A user action starts one script run; a run that ends in st.rerun() goes *)
(* on with the next run at once, so both belong to one step.               *)
(***************************************************************************)
TestPages == 2..4

\* A session_state key that is not set.
Absent == [absent |-> TRUE]
\* {}
EmptyDict == [empty |-> TRUE]
\* seed None
NoSeed == <<>>

\* with_music true on every test page.
WithMusicAlways(page_num) == TRUE

\* with_music of the router (lines 706-711)
WithMusic(page_num) == page_num \in {3, 4}

\* test_types[page_num]["title"] (lines 469-473)
TestTitle(page_num) ==
    CASE page_num = 2 -> "Reading Comprehension - Baseline"
      [] page_num = 3 -> "Reading Comprehension - With Background Music"
      [] OTHER -> "Reading Comprehension - Extended Music Session"

\* str.strip(), for text whose only white space is the space character
RECURSIVE LStrip(_)
LStrip(s) == IF s # <<>> /\ Head(s) = " " THEN LStrip(Tail(s)) ELSE s
RECURSIVE RStrip(_)
RStrip(s) == IF s # <<>> /\ s[Len(s)] = " " THEN RStrip(SubSeq(s, 1, Len(s) - 1)) ELSE s
Strip(s) == RStrip(LStrip(s))

GenreJazz == <<"J","a","z","z">>
GenreOther == <<"O","t","h","e","r">>

\* Options of the instruments multiselect (lines 411-415)
Piano == <<"P","i","a","n","o">>
Guitar == <<"G","u","i","t","a","r">>
Drums == <<"D","r","u","m","s">>
Harp == <<"H","a","r","p">>

\* What the user can have entered in the form of page 1 when it is submitted.
\* other_genre is asked for only when genre is "Other" (lines 385-387).
FormInputs ==
    { [music_while_studying |-> "Yes", genre |-> GenreJazz, other_genre |-> <<>>,
       volume |-> "Moderate", tempo |-> "Moderate", mood |-> <<"C","a","l","m">>,
       instruments |-> <<>>, negative_prompt |-> <<>>, seed |-> 0],
      [music_while_studying |-> "No", genre |-> GenreOther, other_genre |-> <<" ">>,
       volume |-> "Quiet", tempo |-> "Very Slow", mood |-> <<"E","n","e","r","g","e","t","i","c">>,
       instruments |-> <<Piano>>, negative_prompt |-> <<" ">>, seed |-> 0],
      [music_while_studying |-> "No", genre |-> GenreOther,
       other_genre |-> <<" ","F","o","l","k"," ">>,
       volume |-> "Loud", tempo |-> "Fast", mood |-> <<"C","a","l","m">>,
       instruments |-> <<Piano, Guitar>>, negative_prompt |-> <<"d","r","u","m","s">>,
       seed |-> 7] }

\* final_genre (line 440)
FinalGenre(form) ==
    IF form.genre = GenreOther /\ Strip(form.other_genre) # <<>>
    THEN form.other_genre
    ELSE form.genre

\* The validation of line 442: the form is refused.
FormRefused(form) == Strip(FinalGenre(form)) = <<>>

\* The dictionary saved at lines 451-459.
MusicParamsOf(form) ==
    [genre |-> Strip(FinalGenre(form)),
     volume |-> form.volume,
     tempo |-> form.tempo,
     mood |-> Lower(form.mood),
     instruments |-> form.instruments,
     negative_prompt |-> Strip(form.negative_prompt),
     seed |-> IF form.seed > 0 THEN <<form.seed>> ELSE NoSeed]

\* The lesson loaded on every render.
NeedsTestAlways(page_num, tc) == TRUE

\* test_key not in st.session_state (line 482)
NeedsTest(page_num, tc) == tc[page_num] = Absent

\* music_cache_key not in st.session_state.generated_music_cache (line 493)
NeedsMusic(page_num, gmc) == gmc[page_num] = Absent

\* What the two loaders may return in a run that renders page_num; a loader that
\* is not called returns nothing.
TestDraws(page_num, tc) == IF NeedsTest(page_num, tc) THEN GeminiReturns ELSE {None}
MusicDraws(page_num, gmc) ==
    IF WithMusic(page_num) /\ NeedsMusic(page_num, gmc) THEN MusicReturns ELSE {None}

\* The counters of remote generations stop at LoadCap.
LoadCap == 2
Bump(n) == IF n < LoadCap THEN n + 1 ELSE n

\* The radio widgets of a page start on their first option (line 517-522).
DefaultRadio(questions) == [i \in 1..Len(questions) |-> "Yes"]

\* Lines 480-522 of render_test_page, with g and m what load_test_from_gemini and
\* load_music return if they are called. Unpacking None at line 483 raises.
render_test_page(page_num, tc, gmc, ld, g, m) ==
    LET load_test == NeedsTest(page_num, tc)
        raised == load_test /\ g = None
        tc1 == IF load_test /\ ~raised THEN [tc EXCEPT ![page_num] = g] ELSE tc
        load_music == ~raised /\ WithMusic(page_num) /\ NeedsMusic(page_num, gmc)
        gmc1 == IF load_music THEN [gmc EXCEPT ![page_num] = m] ELSE gmc
        ld1 == [ld EXCEPT ![page_num] =
                   [test |-> IF load_test THEN Bump(@.test) ELSE @.test,
                    music |-> IF load_music THEN Bump(@.music) ELSE @.music]]
    IN [test_content |-> tc1, generated_music_cache |-> gmc1, loads |-> ld1,
        error |-> raised]

\* page_answers after the loop of lines 514-522: one entry per question text, the
\* last question of a text giving its value.
PageAnswers(questions, r) ==
    { <<questions[i].text, r[i]>> : i \in { j \in 1..Len(questions) :
          \A l \in (j + 1)..Len(questions) : questions[l].text # questions[j].text } }

\* page_answers[question]
AnswerOf(page_answers, question) == (CHOOSE pr \in page_answers : pr[1] = question)[2]

\* correct_count of lines 529-533
CorrectCount(questions, page_answers) ==
    Cardinality({ i \in 1..Len(questions) :
                    AnswerOf(page_answers, questions[i].text) = questions[i].correct_response })

\* The record with total_questions fixed at the three questions of the Gemini prompt.
SectionRecordOfThree(page_num, questions, r) ==
    LET page_answers == PageAnswers(questions, r) IN
    [answers |-> page_answers,
     correct_count |-> CorrectCount(questions, page_answers),
     total_questions |-> 3,
     had_music |-> WithMusic(page_num),
     test_type |-> TestTitle(page_num)]

\* The record saved at lines 535-541.
SectionRecord(page_num, questions, r) ==
    LET page_answers == PageAnswers(questions, r) IN
    [answers |-> page_answers,
     correct_count |-> CorrectCount(questions, page_answers),
     total_questions |-> Len(questions),
     had_music |-> WithMusic(page_num),
     test_type |-> TestTitle(page_num)]

\* Line 544 divides by len(question_obj_list).
AccuracyRaises(questions) == Len(questions) = 0

NoLoads == [k \in TestPages |-> [test |-> 0, music |-> 0]]
NoRun(event) == [event |-> event, error |-> FALSE, saved |-> FALSE]

\* restart_app that deletes the keys it knows and leaves the cached lessons.
FreshSessionKeepsLessons(event) ==
    /\ page_number' = 1
    /\ user_info' = EmptyDict
    /\ music_params' = EmptyDict
    /\ test_answers' = [k \in TestPages |-> Absent]
    /\ generated_music_cache' = [k \in TestPages |-> Absent]
    /\ test_content' = test_content
    /\ radio' = <<>>
    /\ last_run' = NoRun(event)
    /\ loads' = NoLoads

\* Lines 345-354 after every key was deleted, and page 1 rendered.
FreshSession(event) ==
    /\ page_number' = 1
    /\ user_info' = EmptyDict
    /\ music_params' = EmptyDict
    /\ test_answers' = [k \in TestPages |-> Absent]
    /\ generated_music_cache' = [k \in TestPages |-> Absent]
    /\ test_content' = [k \in TestPages |-> Absent]
    /\ radio' = <<>>
    /\ last_run' = NoRun(event)
    /\ loads' = NoLoads

\* The script run that shows page_num for the first time after st.rerun().
ShowPage(page_num, event) ==
    /\ page_number' = page_num
    /\ IF page_num \in TestPages
       THEN \E g \in TestDraws(page_num, test_content),
               m \in MusicDraws(page_num, generated_music_cache) :
              LET r == render_test_page(page_num, test_content, generated_music_cache,
                                        loads, g, m) IN
              /\ test_content' = r.test_content
              /\ generated_music_cache' = r.generated_music_cache
              /\ loads' = r.loads
              /\ radio' = IF r.error THEN <<>>
                          ELSE DefaultRadio(r.test_content[page_num].questions)
              /\ last_run' = [event |-> event, error |-> r.error, saved |-> FALSE]
       ELSE /\ UNCHANGED <<test_content, generated_music_cache, loads>>
            /\ radio' = <<>>
            /\ last_run' = NoRun(event)

\* render_page_1 with the form submitted (lines 439-463), then the rerun.
SubmitFormWith(form) ==
    /\ page_number = 1
    /\ IF FormRefused(form)
       THEN /\ last_run' = NoRun("form")
            /\ UNCHANGED <<page_number, user_info, music_params, test_answers,
                           generated_music_cache, test_content, radio, loads>>
       ELSE /\ user_info' = [music_while_studying |-> form.music_while_studying]
            /\ music_params' = MusicParamsOf(form)
            /\ ShowPage(2, "form")
            /\ UNCHANGED test_answers
    /\ UNCHANGED callVars

SubmitForm == \E form \in FormInputs : SubmitFormWith(form)

\* The page number raised by two.
NextPageSkips(p) == p + 2

\* st.session_state.page_number += 1 (line 549)
NextPage(p) == p + 1

\* "Complete This Section" (lines 527-550), then the rerun. The button is on the
\* page only if the last run rendered it. An exception ends the run in the
\* handler of lines 719-727.
CompleteSection ==
    /\ page_number \in TestPages
    /\ test_content[page_number] # Absent
    /\ LET questions == test_content[page_number].questions IN
       /\ test_answers' = [test_answers EXCEPT ![page_number] =
                              SectionRecord(page_number, questions, radio)]
       /\ IF AccuracyRaises(questions)
          THEN /\ last_run' = [event |-> "complete", error |-> TRUE, saved |-> FALSE]
               /\ UNCHANGED <<page_number, generated_music_cache, test_content, radio, loads>>
          ELSE ShowPage(NextPage(page_number), "complete")
    /\ UNCHANGED <<user_info, music_params, callVars>>

\* The user changes the answer of one radio widget: a run that renders the page.
SetAnswer ==
    /\ page_number \in TestPages
    /\ \E i \in DOMAIN radio, v \in {"Yes", "No"} :
          /\ radio[i] # v
          /\ radio' = [radio EXCEPT ![i] = v]
    /\ \E g \in TestDraws(page_number, test_content),
             m \in MusicDraws(page_number, generated_music_cache) :
          LET r == render_test_page(page_number, test_content, generated_music_cache,
                                    loads, g, m) IN
          /\ test_content' = r.test_content
          /\ generated_music_cache' = r.generated_music_cache
          /\ loads' = r.loads
          /\ last_run' = [event |-> "render", error |-> r.error, saved |-> FALSE]
    /\ UNCHANGED <<page_number, user_info, music_params, test_answers, callVars>>

\* Any other interaction that runs the script again without pressing a button.
Rerun ==
    /\ IF page_number \in TestPages
       THEN \E g \in TestDraws(page_number, test_content),
             m \in MusicDraws(page_number, generated_music_cache) :
              LET r == render_test_page(page_number, test_content, generated_music_cache,
                                        loads, g, m) IN
              /\ test_content' = r.test_content
              /\ generated_music_cache' = r.generated_music_cache
              /\ loads' = r.loads
              /\ last_run' = [event |-> "render", error |-> r.error, saved |-> FALSE]
       ELSE /\ last_run' = NoRun("render")
            /\ UNCHANGED <<test_content, generated_music_cache, loads>>
    /\ UNCHANGED <<page_number, user_info, music_params, test_answers, radio, callVars>>

\* restart_app (lines 336-340) from any of its buttons, then the rerun.
Restart ==
    /\ FreshSession("restart")
    /\ UNCHANGED callVars

\* baseline_avg, music_avg and difference are bound only at lines 613-616, and
\* lines 662-664 read them when either partition is not empty.
SummaryRaises(answers) ==
    LET with == { k \in TestPages : answers[k] # Absent /\ answers[k].had_music }
        without == { k \in TestPages : answers[k] # Absent /\ ~answers[k].had_music }
    IN (with = {}) # (without = {})

\* submit_to_firestore that lets the error of the write through.
submit_to_firestore_raises(stored) == [success |-> stored, raised |-> ~stored]

\* submit_to_firestore (lines 317-334): stored tells whether building the client
\* and the write went through; an exception is caught and gives False.
submit_to_firestore(stored) == [success |-> stored, raised |-> FALSE]

\* "Submit Results" of the final page (lines 653-672).
SubmitResults ==
    /\ page_number = 5
    /\ \E stored \in BOOLEAN :
          LET r == submit_to_firestore(stored) IN
          last_run' = IF SummaryRaises(test_answers)
                      THEN [event |-> "submit", error |-> TRUE, saved |-> FALSE]
                      ELSE [event |-> "submit", error |-> r.raised, saved |-> r.success]
    /\ UNCHANGED <<page_number, user_info, music_params, test_answers,
                   generated_music_cache, test_content, radio, loads, callVars>>

(***************************************************************************)
(* Specifications                                                          *)
(***************************************************************************)
\* ---------------------------------------------------------------------------
\* create_music_prompt (lines 69-146). Texts are tuples of characters.
\* ---------------------------------------------------------------------------

TempoVerySlow ==
    <<"v","e","r","y"," ","s","l","o","w"," ","t","e","m","p","o",","," ","m","e","d","i","t",
      "a","t","i","v","e"," ","p","a","c","e">>
TempoSlow ==
    <<"s","l","o","w"," ","t","e","m","p","o",","," ","r","e","l","a","x","e","d"," ","p","a",
      "c","e">>
TempoModerate ==
    <<"m","o","d","e","r","a","t","e"," ","t","e","m","p","o",","," ","s","t","e","a","d","y",
      " ","r","h","y","t","h","m">>
TempoFast ==
    <<"f","a","s","t"," ","t","e","m","p","o",","," ","e","n","e","r","g","e","t","i","c"," ",
      "p","a","c","e">>
TempoVeryFast ==
    <<"v","e","r","y"," ","f","a","s","t"," ","t","e","m","p","o",","," ","h","i","g","h"," ",
      "e","n","e","r","g","y">>

\* tempo_map (lines 79-85)
tempo_map ==
    ("Very Slow" :> TempoVerySlow) @@ ("Slow" :> TempoSlow) @@ ("Moderate" :> TempoModerate)
    @@ ("Fast" :> TempoFast) @@ ("Very Fast" :> TempoVeryFast)

VolumeVeryQuiet ==
    <<"v","e","r","y"," ","s","o","f","t"," ","a","n","d"," ","g","e","n","t","l","e",","," ",
      "b","a","r","e","l","y"," ","a","u","d","i","b","l","e">>
VolumeQuiet ==
    <<"s","o","f","t"," ","a","n","d"," ","g","e","n","t","l","e",","," ","b","a","c","k","g",
      "r","o","u","n","d"," ","a","m","b","i","a","n","c","e">>
VolumeModerate ==
    <<"m","o","d","e","r","a","t","e"," ","v","o","l","u","m","e",","," ","b","a","l","a","n",
      "c","e","d"," ","d","y","n","a","m","i","c","s">>
VolumeLoud ==
    <<"f","u","l","l"," ","v","o","l","u","m","e",","," ","r","i","c","h"," ","a","n","d"," ",
      "p","r","e","s","e","n","t">>
VolumeVeryLoud ==
    <<"p","o","w","e","r","f","u","l"," ","a","n","d"," ","i","n","t","e","n","s","e",","," ",
      "s","t","r","o","n","g"," ","p","r","e","s","e","n","c","e">>

\* volume_map (lines 103-109)
volume_map ==
    ("Very Quiet" :> VolumeVeryQuiet) @@ ("Quiet" :> VolumeQuiet)
    @@ ("Moderate" :> VolumeModerate) @@ ("Loud" :> VolumeLoud)
    @@ ("Very Loud" :> VolumeVeryLoud)

\* None where a text may stand, and a text t there: <<t>>.
NoText == <<>>

\* dict.get(key): None when the key is not in the dictionary.
DictGet(d, key) == IF key \in DOMAIN d THEN <<d[key]>> ELSE NoText

\* tempo_desc (line 86); the key is there in every saved music_params.
tempo_desc(mp) == DictGet(tempo_map, mp.tempo)

\* volume_desc (line 110)
volume_desc(mp) == DictGet(volume_map, mp.volume)

\* sep.join(items)
RECURSIVE Join(_, _)
Join(items, sep) ==
    IF items = <<>> THEN <<>>
    ELSE IF Len(items) = 1 THEN items[1]
    ELSE items[1] \o sep \o Join(Tail(items), sep)

CommaSpace ==
    <<","," ">>
Featuring ==
    <<","," ","f","e","a","t","u","r","i","n","g"," ">>
AndWord ==
    <<" ","a","n","d"," ">>
CommaAnd ==
    <<","," ","a","n","d"," ">>

\* instrument_desc that lower-cases the last name only.
instrument_desc_last_lower(instruments) ==
    IF instruments = <<>> THEN <<>>
    ELSE IF Len(instruments) = 1 THEN Featuring \o Lower(instruments[1])
    ELSE IF Len(instruments) = 2
         THEN Featuring \o instruments[1] \o AndWord \o Lower(instruments[2])
    ELSE Featuring \o Join(SubSeq(instruments, 1, Len(instruments) - 1), CommaSpace)
         \o CommaAnd \o Lower(instruments[Len(instruments)])

\* instrument_desc (lines 92-100)
instrument_desc(instruments) ==
    IF instruments = <<>> THEN <<>>
    ELSE IF Len(instruments) = 1 THEN Featuring \o Lower(instruments[1])
    ELSE IF Len(instruments) = 2
         THEN Featuring \o Lower(instruments[1]) \o AndWord \o Lower(instruments[2])
    ELSE Featuring \o Lower(Join(SubSeq(instruments, 1, Len(instruments) - 1), CommaSpace))
         \o CommaAnd \o Lower(instruments[Len(instruments)])

\* str(None), as an f-string renders it
NoneText ==
    <<"N","o","n","e">>

\* A value as an f-string renders it.
Format(x) == IF x = NoText THEN NoneText ELSE x[1]

MusicWord ==
    <<" ","m","u","s","i","c",","," ">>
AndPeaceful ==
    <<" ","a","n","d"," ","p","e","a","c","e","f","u","l",","," ">>
StudyTail ==
    <<","," ","i","n","s","t","r","u","m","e","n","t","a","l",","," ","n","o","n","-","d","i",
      "s","t","r","a","c","t","i","n","g",","," ","p","e","r","f","e","c","t"," ","f","o","r",
      " ","c","o","n","c","e","n","t","r","a","t","i","o","n"," ","a","n","d"," ","f","o","c",
      "u","s">>

\* main_prompt (lines 113-116)
main_prompt(mp) ==
    mp.genre \o MusicWord \o mp.mood \o AndPeaceful \o Format(tempo_desc(mp))
    \o instrument_desc(mp.instruments) \o CommaSpace \o Format(volume_desc(mp)) \o StudyTail

TermFast ==
    <<"f","a","s","t">>
TermEnergetic ==
    <<"e","n","e","r","g","e","t","i","c">>
TermUpbeat ==
    <<"u","p","b","e","a","t">>
TermSlow ==
    <<"s","l","o","w">>
TermMeditative ==
    <<"m","e","d","i","t","a","t","i","v","e">>
TermSleepy ==
    <<"s","l","e","e","p","y">>
TermAggressive ==
    <<"a","g","g","r","e","s","s","i","v","e">>
TermChaotic ==
    <<"c","h","a","o","t","i","c">>
TermDissonant ==
    <<"d","i","s","s","o","n","a","n","t">>
TermBoring ==
    <<"b","o","r","i","n","g">>
TermMonotonous ==
    <<"m","o","n","o","t","o","n","o","u","s">>
TermVocals ==
    <<"v","o","c","a","l","s">>
TermLyrics ==
    <<"l","y","r","i","c","s">>
TermSinging ==
    <<"s","i","n","g","i","n","g">>
TermSuddenChanges ==
    <<"s","u","d","d","e","n"," ","c","h","a","n","g","e","s">>
TermJarringTransitions ==
    <<"j","a","r","r","i","n","g"," ","t","r","a","n","s","i","t","i","o","n","s">>
TermCalm ==
    <<"c","a","l","m">>

\* The terms always excluded (line 138).
AlwaysExcluded == <<TermVocals, TermLyrics, TermSinging, TermSuddenChanges, TermJarringTransitions>>

\* negative_items (lines 119-138), in the order of the appends.
negative_items(mp) ==
    LET custom_negative == Strip(mp.negative_prompt)
    IN (IF custom_negative # <<>> THEN <<custom_negative>> ELSE <<>>)
       \o (IF mp.tempo = "Very Slow" THEN <<TermFast, TermEnergetic, TermUpbeat>>
           ELSE IF mp.tempo \in {"Fast", "Very Fast"}
                THEN <<TermSlow, TermMeditative, TermSleepy>>
           ELSE <<>>)
       \o (IF mp.mood = TermCalm THEN <<TermAggressive, TermChaotic, TermDissonant>>
           ELSE IF mp.mood = TermEnergetic THEN <<TermSleepy, TermBoring, TermMonotonous>>
           ELSE <<>>)
       \o AlwaysExcluded

\* The distinct items of a list, each at its first place.
RECURSIVE Distinct(_)
Distinct(items) ==
    IF items = <<>> THEN <<>>
    ELSE LET front == Distinct(SubSeq(items, 1, Len(items) - 1))
             last == items[Len(items)]
         IN IF \E i \in 1..Len(front) : front[i] = last THEN front ELSE Append(front, last)

\* A list turned by k places, and backwards when back is set.
Turned(items, k, back) ==
    LET n == Len(items)
        rot == [i \in 1..n |-> items[((i + k - 1) % n) + 1]]
    IN IF back THEN [i \in 1..n |-> rot[n + 1 - i]] ELSE rot

\* Iteration orders of set(negative_items) (line 140): the order of a Python set of
\* strings is not fixed; the turns of the list, forwards and backwards, stand for it.
SetOrders(items) ==
    { Turned(Distinct(items), k, back) : k \in 0..(Len(Distinct(items)) - 1), back \in BOOLEAN }

\* The results of create_music_prompt (lines 69-146): prompt and negative prompt, with
\* the locals tempo_desc, volume_desc and instrument_desc. The except branch (lines
\* 144-146) needs a value that is not text, which page 1 never saves.
create_music_prompt(mp) ==
    { [main |-> main_prompt(mp),
       negative |-> Join(order, CommaSpace),
       tempo_desc |-> tempo_desc(mp),
       volume_desc |-> volume_desc(mp),
       instrument_desc |-> instrument_desc(mp.instruments)]
      : order \in SetOrders(negative_items(mp)) }

\* The places where sep starts in s.
Matches(s, sep) ==
    { i \in 1..(Len(s) - Len(sep) + 1) : SubSeq(s, i, i + Len(sep) - 1) = sep }

\* s.split(sep)
RECURSIVE Split(_, _)
Split(s, sep) ==
    IF Matches(s, sep) = {} THEN <<s>>
    ELSE LET i == CHOOSE m \in Matches(s, sep) : \A o \in Matches(s, sep) : m <= o
         IN <<SubSeq(s, 1, i - 1)>> \o Split(SubSeq(s, i + Len(sep), Len(s)), sep)

\* ---------------------------------------------------------------------------
\* The pure functions, each applied once to an input of a bounded set.
\* ---------------------------------------------------------------------------

\* A call of function fn with argument arg, not yet made.
PureCall(fn, arg) == [fn |-> fn, arg |-> arg, done |-> FALSE]

\* The call made, with its result.
PureDone(call, out) == [fn |-> call.fn, arg |-> call.arg, done |-> TRUE, out |-> out]

\* music_params as page 1 saves it (lines 451-459)
MusicParams(tempo, volume, mood, instruments, negative_prompt) ==
    [genre |-> GenreJazz, volume |-> volume, tempo |-> tempo, mood |-> mood,
     instruments |-> instruments, negative_prompt |-> negative_prompt, seed |-> NoSeed]

\* Tempo and volume values tried: the options of the sliders and one that is none.
TempoValues == {"Very Slow", "Slow", "Moderate", "Fast", "Very Fast", "Medium"}
VolumeValues == {"Very Quiet", "Quiet", "Moderate", "Loud", "Very Loud", "Medium"}

\* Moods tried, lower-cased as page 1 saves them.
MoodValues == {TermCalm, TermEnergetic, <<"f","o","c","u","s","e","d">>}

\* Texts of the "What should the music NOT include?" field.
NegativeTexts ==
    { <<>>,
      <<" ","d","r","u","m","s"," ">>,
      <<"v","o","c","a","l","s">>,
      <<"v","o","c","a","l","s",","," ","d","r","u","m","s">> }

\* Instrument selections tried.
InstrumentLists ==
    { <<>>, <<Piano>>, <<Piano, Guitar>>, <<Guitar, Piano>>, <<Piano, Guitar, Drums>>,
      <<Harp, Drums, Guitar, Piano>> }

PromptInputs ==
    { MusicParams(t, "Moderate", m, <<>>, n) :
        t \in TempoValues, m \in MoodValues, n \in NegativeTexts }
    \cup { MusicParams("Slow", v, TermCalm, i, <<>>) : v \in VolumeValues, i \in InstrumentLists }

\* create_music_prompt(music_params), as load_music calls it (line 197).
CreateMusicPrompt ==
    /\ pure.fn = "create_music_prompt"
    /\ ~pure.done
    /\ \E out \in create_music_prompt(pure.arg) : pure' = PureDone(pure, out)
    /\ UNCHANGED <<gemini, music, sessionVars>>

\* Largest number of 16-bit samples of a prediction tried.
MaxSamples == 11

\* Predictions tried: n bytes, with valid and with invalid base64.
DecodeInputs ==
    { [b64_ok |-> ok, raw |-> [i \in 1..n |-> (i * 37) % 256]] :
        n \in 0..(2 * MaxSamples), ok \in BOOLEAN }

\* decode_prediction_to_wav_bytes(b64), as load_music calls it (line 235).
DecodePrediction ==
    /\ pure.fn = "decode_prediction_to_wav_bytes"
    /\ ~pure.done
    /\ pure' = PureDone(pure, decode_prediction_to_wav_bytes(pure.arg))
    /\ UNCHANGED <<gemini, music, sessionVars>>

\* ---------------------------------------------------------------------------
\* The summary of render_final_page (lines 564-616, 653-666). A Python float is
\* the exact fraction <<numerator, denominator>> in lowest terms.
\* ---------------------------------------------------------------------------

Abs(n) == IF n < 0 THEN 0 - n ELSE n

RECURSIVE Gcd(_, _)
Gcd(a, b) == IF b = 0 THEN a ELSE Gcd(b, a % b)

\* The fraction n/d, d > 0, in lowest terms.
Frac(n, d) == LET g == Gcd(Abs(n), d) IN <<n \div g, d \div g>>

FracAdd(x, y) == Frac(x[1] * y[2] + y[1] * x[2], x[2] * y[2])
FracSub(x, y) == Frac(x[1] * y[2] - y[1] * x[2], x[2] * y[2])
FracDiv(x, k) == Frac(x[1], x[2] * k)

\* sum(list) of fractions
RECURSIVE FracSum(_)
FracSum(list) == IF list = <<>> THEN Frac(0, 1) ELSE FracAdd(list[1], FracSum(Tail(list)))

\* percentage (line 573)
Percentage(score, total) == IF total > 0 THEN Frac(score * 100, total) ELSE Frac(0, 1)

\* sum(percentages) without the division by len.
AverageUndivided(percentages) == FracSum(percentages)

\* sum(percentages) / len(percentages) (lines 614-615)
Average(percentages) == FracDiv(FracSum(percentages), Len(percentages))

\* The recorded sections in the order of test_answers.items().
RECURSIVE SectionsFrom(_, _)
SectionsFrom(answers, k) ==
    IF k > 4 THEN <<>>
    ELSE (IF answers[k] = Absent THEN <<>> ELSE <<answers[k]>>) \o SectionsFrom(answers, k + 1)

\* The percentages of the sections recorded with that had_music, in order.
RECURSIVE PercentagesOf(_, _)
PercentagesOf(sections, had_music) ==
    IF sections = <<>> THEN <<>>
    ELSE (IF sections[1].had_music = had_music
          THEN <<Percentage(sections[1].correct_count, sections[1].total_questions)>>
          ELSE <<>>) \o PercentagesOf(Tail(sections), had_music)

\* render_final_page (lines 564-666) on test_answers; submit tells whether "Submit
\* Results" was pressed in this run. A name is bound (<<value>>) or not (<<>>).
render_final_page(answers, submit) ==
    LET sections == SectionsFrom(answers, 2)
        no_music_sections == PercentagesOf(sections, FALSE)
        music_sections == PercentagesOf(sections, TRUE)
        both == no_music_sections # <<>> /\ music_sections # <<>>
        baseline_avg == IF both THEN <<Average(no_music_sections)>> ELSE <<>>
        music_avg == IF both THEN <<Average(music_sections)>> ELSE <<>>
        difference == IF both THEN <<FracSub(music_avg[1], baseline_avg[1])>> ELSE <<>>
        name_error == \/ (no_music_sections # <<>> /\ baseline_avg = <<>>)
                      \/ (music_sections # <<>> /\ music_avg = <<>>)
    IN [no_music_sections |-> no_music_sections,
        music_sections |-> music_sections,
        baseline_avg |-> baseline_avg,
        music_avg |-> music_avg,
        difference |-> difference,
        error |-> submit /\ name_error,
        performance_analysis |->
            IF ~submit \/ name_error THEN <<>>
            ELSE <<[baseline_avg |-> IF no_music_sections # <<>> THEN baseline_avg[1] ELSE Frac(0, 1),
                    music_avg |-> IF music_sections # <<>> THEN music_avg[1] ELSE Frac(0, 1),
                    improvement |-> IF both THEN difference[1] ELSE Frac(0, 1)]>>]

\* Scores tried: correct_count of total_questions.
ScoreSamples == { <<0, 0>>, <<0, 3>>, <<2, 3>>, <<3, 3>>, <<4, 5>>, <<1, 2>> }

\* Sections as lines 535-538 record them.
SectionSamples ==
    { [correct_count |-> sc[1], total_questions |-> sc[2], had_music |-> m] :
        sc \in ScoreSamples, m \in BOOLEAN }

\* Contents of test_answers tried.
SummaryInputs ==
    { [answers |-> a, submit |-> b] :
        a \in [TestPages -> SectionSamples \cup {Absent}], b \in BOOLEAN }

\* A run of render_final_page (line 713).
RenderFinalPage ==
    /\ pure.fn = "render_final_page"
    /\ ~pure.done
    /\ pure' = PureDone(pure, render_final_page(pure.arg.answers, pure.arg.submit))
    /\ UNCHANGED <<gemini, music, sessionVars>>

\* ---------------------------------------------------------------------------
\* The request instance of load_music (lines 212-229): a dictionary, given as a
\* function of its keys.
\* ---------------------------------------------------------------------------

\* The instance with sample_count next to every seed.
request_instance_both(music_prompt, negative_prompt, seed) ==
    ("prompt" :> music_prompt)
    @@ (IF Strip(negative_prompt) # <<>> THEN ("negative_prompt" :> negative_prompt) ELSE <<>>)
    @@ (IF seed # NoSeed /\ seed[1] > 0 THEN ("seed" :> seed[1]) ELSE <<>>)
    @@ ("sample_count" :> 1)

\* instance (lines 213-227); seed is music_params.get('seed'), None being NoSeed.
request_instance(music_prompt, negative_prompt, seed) ==
    ("prompt" :> music_prompt)
    @@ (IF Strip(negative_prompt) # <<>> THEN ("negative_prompt" :> negative_prompt) ELSE <<>>)
    @@ (IF seed # NoSeed /\ seed[1] > 0 THEN ("seed" :> seed[1]) ELSE ("sample_count" :> 1))

\* Seeds tried: none, 0 and the ends of the number_input (lines 427-433).
SeedValues == { NoSeed, <<0>>, <<1>>, <<9999>> }

\* music_params tried: what page 1 saves for each form, and every seed value.
InstanceInputs ==
    { MusicParamsOf(form) : form \in FormInputs }
    \cup { [MusicParams("Fast", "Loud", TermEnergetic, <<Piano>>, n) EXCEPT !.seed = sd] :
              n \in NegativeTexts, sd \in SeedValues }

\* Lines 197-227 of load_music: the prompts, then the instance.
BuildInstance ==
    /\ pure.fn = "load_music"
    /\ ~pure.done
    /\ \E p \in create_music_prompt(pure.arg) :
          pure' = PureDone(pure, request_instance(p.main, p.negative, pure.arg.seed))
    /\ UNCHANGED <<gemini, music, sessionVars>>

\* No pure function is being applied.
PureIdle == [fn |-> "none", done |-> FALSE]

\* Largest max_retries tried in SpecCalls.
MaxRetries == 3

SessionStart ==
    /\ page_number = 1
    /\ user_info = EmptyDict
    /\ music_params = EmptyDict
    /\ test_answers = [k \in TestPages |-> Absent]
    /\ generated_music_cache = [k \in TestPages |-> Absent]
    /\ test_content = [k \in TestPages |-> Absent]
    /\ radio = <<>>
    /\ last_run = NoRun("start")
    /\ loads = NoLoads

\* The session.
Init == SessionStart /\ gemini = GeminiIdle /\ music = MusicIdle /\ pure = PureIdle
Next == SubmitForm \/ CompleteSection \/ SetAnswer \/ Rerun \/ Restart \/ SubmitResults
Spec == Init /\ [][Next]_vars

\* One call of load_test_from_gemini or of load_music with max_retries in 1..MaxRetries.
InitCalls ==
    /\ SessionStart
    /\ pure = PureIdle
    /\ \E n \in 1..MaxRetries :
          \/ gemini = GeminiCall(n) /\ music = MusicIdle
          \/ gemini = GeminiIdle /\ music = MusicCall(n)
NextCalls == GeminiAttempt \/ MusicStart \/ MusicAttempt \/ MusicParse
SpecCalls == InitCalls /\ [][NextCalls]_vars


(***************************************************************************)
(* Properties of the two retrying calls (SpecCalls)                        *)
(***************************************************************************)
SilenceAssets == { create_silent_audio(ok) : ok \in BOOLEAN }

\* The outcomes seen so far were all failures the endpoint labelled rate limit.
AllRateLimited(outcomes) == \A i \in DOMAIN outcomes : RateLimited(outcomes[i])

\* C1: one call of load_test_from_gemini(max_retries=N) or load_music(max_retries=N),
\* N >= 1, invokes its remote operation at most N times, whatever the outcomes.
C1_AtMostN ==
    /\ gemini.pc # "idle" => gemini.invocations <= gemini.max_retries
    /\ music.pc # "idle" => music.requests <= music.max_retries

C1_Witness ==
    /\ gemini.pc = "done"
    /\ gemini.max_retries >= 2
    /\ gemini.invocations = gemini.max_retries

\* C2: when every attempt of load_test_from_gemini fails with a rate-limit error, the
\* operation is invoked exactly N times, the wait happens N-1 times and never after
\* the last attempt, and the result is the rate-limit failure with no questions.
C2_AllRateLimited ==
    (gemini.pc = "done" /\ AllRateLimited(gemini.outcomes)) =>
        /\ Len(gemini.outcomes) = gemini.max_retries
        /\ gemini.invocations = gemini.max_retries
        /\ gemini.sleeps = gemini.max_retries - 1
        /\ gemini.last_event = "invoke"
        /\ gemini.path = "rate_limit"
        /\ gemini.ret = [generated_text |-> RateLimitText, questions |-> <<>>]
        /\ gemini.ret.generated_text # GenericErrorText

C2_Witness ==
    /\ gemini.pc = "done"
    /\ gemini.max_retries = 3
    /\ Len(gemini.outcomes) = 3
    /\ AllRateLimited(gemini.outcomes)

\* C3: in load_test_from_gemini a failure that is no rate-limit condition (the API
\* key missing, another API error, a body that is invalid JSON or lacks a field) ends
\* the call at once: it is the last attempt, nothing waits after it, and the result is
\* the generic error lesson with no questions.
C3_NonRateLimitEndsCall ==
    \A i \in DOMAIN gemini.outcomes :
        (GeminiRaises(gemini.outcomes[i]) /\ ~RateLimited(gemini.outcomes[i])) =>
            /\ i = Len(gemini.outcomes)
            /\ gemini.pc = "done"
            /\ gemini.last_event # "sleep"
            /\ gemini.path = "generic"
            /\ gemini.ret = [generated_text |-> GenericErrorText, questions |-> <<>>]

\* C4 as stated: in load_music an HTTP 429 answer while attempts remain is followed
\* by another attempt.
C4_Music429Retried ==
    \A i \in DOMAIN music.outcomes :
        (music.outcomes[i] = [kind |-> "http_error", code |-> 429] /\ i < music.max_retries) =>
            ~(music.pc = "done" /\ Len(music.outcomes) = i)

\* C4 amended: load_music never retries an HTTP 429 answer: the request that got it is
\* the last one and the call returns the silence fallback at once; only
\* load_test_from_gemini retries a rate-limit error while attempts remain, and gives
\* the rate-limit failure once its bound is used up.
C4_Only_Gemini_Retries ==
    /\ \A i \in DOMAIN music.outcomes :
          music.outcomes[i] = [kind |-> "http_error", code |-> 429] =>
              /\ i = Len(music.outcomes)
              /\ music.pc = "done"
              /\ music.requests = i
              /\ music.cause = "http"
              /\ music.ret \in SilenceAssets
    /\ \A i \in DOMAIN gemini.outcomes :
          RateLimited(gemini.outcomes[i]) =>
              IF i < gemini.max_retries
              THEN gemini.pc = "loop" \/ Len(gemini.outcomes) > i
              ELSE gemini.pc = "done" /\ gemini.path = "rate_limit"

C4_Witness ==
    /\ music.pc = "done"
    /\ music.max_retries = 3
    /\ Len(music.outcomes) = 2
    /\ music.outcomes[1].kind = "timeout"
    /\ music.outcomes[2] = [kind |-> "http_error", code |-> 429]


ValidQuestion(q) == q.text # "" /\ q.correct_response \in {"Yes", "No"}

\* C7: a lesson that load_test_from_gemini returns as a success has at least one
\* question, and each question has a text and a correct_response of "Yes" or "No".
C7_SuccessIsValid ==
    (gemini.pc = "done" /\ gemini.path = "success") =>
        /\ gemini.ret.questions # <<>>
        /\ \A i \in DOMAIN gemini.ret.questions : ValidQuestion(gemini.ret.questions[i])

\* C8: when attempt k of load_test_from_gemini succeeds, the call ends there with that
\* attempt's text and questions: k invocations, k-1 waits, the last event an
\* invocation, and no attempt in the history after a success.
C8_SuccessReturnsAtOnce ==
    LET k == Len(gemini.outcomes) IN
    /\ \A i \in 1..(k - 1) : GeminiRaises(gemini.outcomes[i])
    /\ (k > 0 /\ ~GeminiRaises(gemini.outcomes[k])) =>
          /\ gemini.pc = "done"
          /\ gemini.path = "success"
          /\ gemini.ret = [generated_text |-> Passage,
                           questions |-> gemini.outcomes[k].questions]
          /\ gemini.invocations = k
          /\ gemini.sleeps = k - 1
          /\ gemini.last_event = "invoke"
          /\ k <= gemini.max_retries

C8_Witness ==
    /\ gemini.pc = "done"
    /\ gemini.path = "success"
    /\ Len(gemini.outcomes) = 3
    /\ AllRateLimited(SubSeq(gemini.outcomes, 1, 2))
    /\ gemini.ret.questions # <<>>

(***************************************************************************)
(* Properties of the session (Spec)                                        *)
(***************************************************************************)
\* C5: on a test page whose lesson is the error lesson with no questions, pressing
\* "Complete This Section" still moves page_number to the next page.
C5_CompleteAdvances ==
    [][(/\ page_number \in TestPages
        /\ test_content[page_number] # Absent
        /\ test_content[page_number].questions = <<>>
        /\ last_run'.event = "complete")
       => (page_number' = page_number + 1 /\ ~last_run'.error)]_vars

\* C9: between two resets each page's lesson, and each music page's audio, is
\* generated at most once however often the page is rendered, and a stored result,
\* error lesson and silence included, stays as it is until a reset.
C9_LoadedOnce ==
    \A k \in TestPages :
        /\ loads[k].test <= 1
        /\ loads[k].music <= (IF WithMusic(k) THEN 1 ELSE 0)
        /\ (loads[k].test = 1) = (test_content[k] # Absent)
        /\ (loads[k].music = 1) = (generated_music_cache[k] # Absent)

C9_Kept ==
    \A k \in TestPages :
        last_run'.event # "restart" =>
            /\ test_content[k] # Absent => test_content'[k] = test_content[k]
            /\ generated_music_cache[k] # Absent =>
                  generated_music_cache'[k] = generated_music_cache[k]

C9_Memoized == [](C9_LoadedOnce) /\ [][C9_Kept]_vars

C9_Witness ==
    /\ page_number = 3
    /\ last_run.event = "render"
    /\ loads[3] = [test |-> 1, music |-> 1]
    /\ test_content[3].generated_text = GenericErrorText
    /\ generated_music_cache[3] = create_silent_audio(TRUE)

\* C10: page_number stays in 1..5; a step leaves it as it is, raises it by one (the
\* form of page 1, "Complete This Section" on pages 2..4) or puts it back to 1 by a
\* restart; nothing moves past page 5.
C10_Step ==
    /\ page_number' \in {page_number, page_number + 1, 1}
    /\ page_number' = page_number + 1 =>
          \/ page_number = 1 /\ last_run'.event = "form"
          \/ page_number \in TestPages /\ last_run'.event = "complete"
    /\ page_number' < page_number => (page_number' = 1 /\ last_run'.event = "restart")
    /\ page_number = 5 => page_number' \in {5, 1}

C10_ForwardOnly == [](page_number \in 1..5) /\ [][C10_Step]_vars

C10_Witness ==
    /\ page_number = 5
    /\ last_run.event = "submit"
    /\ last_run.saved


\* C11: a restart is a full reset: after restart_app and the rerun the session is the
\* initial one (page 1, user_info, music_params, test_answers and the music cache
\* empty, no cached lesson, no widget value), whatever the state before.
C11_Step ==
    last_run'.event = "restart" =>
        /\ page_number' = 1
        /\ user_info' = EmptyDict
        /\ music_params' = EmptyDict
        /\ \A k \in TestPages :
              /\ test_answers'[k] = Absent
              /\ generated_music_cache'[k] = Absent
              /\ test_content'[k] = Absent
        /\ radio' = <<>>

C11_FullReset == [][C11_Step]_vars

C11_Witness ==
    /\ last_run.event = "restart"
    /\ page_number = 1
    /\ \A k \in TestPages : test_content[k] = Absent /\ test_answers[k] = Absent

\* The custom genre asked for by "Other" is blank.
MissingGenre(form) == form.genre = GenreOther /\ Strip(form.other_genre) = <<>>

\* C12: submitting the form with genre "Other" and a blank custom genre does not
\* advance page_number and leaves user_info and music_params as they are; so from
\* page 2 on music_params.genre is a genre, neither empty nor the placeholder "Other".
C12_Step ==
    \A form \in FormInputs :
        (MissingGenre(form) /\ SubmitFormWith(form)) =>
            UNCHANGED <<page_number, user_info, music_params>>

C12_MissingGenreBlocks ==
    /\ [][C12_Step]_vars
    /\ [](page_number >= 2 => music_params.genre \notin {<<>>, GenreOther})

\* C13: when the store write fails, submit_to_firestore gives False and lets no error
\* through, page_number, user_info, music_params, test_answers and the caches stay as
\* they are, and the submit button is there to be pressed again.
C13_Step ==
    (last_run'.event = "submit" /\ ~last_run'.saved) =>
        /\ ~last_run'.error
        /\ UNCHANGED <<page_number, user_info, music_params, test_answers,
                       generated_music_cache, test_content>>
        /\ page_number' = 5

C13_FailedSubmitKeepsState == [][C13_Step]_vars

C13_Witness ==
    /\ page_number = 5
    /\ last_run.event = "submit"
    /\ ~last_run.saved
    /\ ~last_run.error


\* ---------------------------------------------------------------------------
\* Specification of the pure functions
\* ---------------------------------------------------------------------------

PureInputs ==
    { PureCall("create_music_prompt", mp) : mp \in PromptInputs }
    \cup { PureCall("decode_prediction_to_wav_bytes", pred) : pred \in DecodeInputs }
    \cup { PureCall("render_final_page", in) : in \in SummaryInputs }
    \cup { PureCall("load_music", mp) : mp \in InstanceInputs }

InitPure ==
    /\ SessionStart
    /\ gemini = GeminiIdle
    /\ music = MusicIdle
    /\ pure \in PureInputs

NextPure == CreateMusicPrompt \/ DecodePrediction \/ RenderFinalPage \/ BuildInstance

SpecPure == InitPure /\ [][NextPure]_vars

\* The call of fn has returned.
Returned(fn) == pure.fn = fn /\ pure.done

\* The terms of a negative prompt.
Terms(negative) == Split(negative, CommaSpace)

\* C14: the negative prompt of create_music_prompt, read as terms separated by ", ",
\* has each of "vocals", "lyrics", "singing", "sudden changes", "jarring transitions"
\* and no term twice, for every tempo, mood and negative_prompt text.
C14_NegativeTerms ==
    Returned("create_music_prompt") =>
        LET terms == Terms(pure.out.negative)
        IN /\ \A a \in 1..Len(AlwaysExcluded) : \E i \in 1..Len(terms) : terms[i] = AlwaysExcluded[a]
           /\ \A i, j \in 1..Len(terms) : terms[i] = terms[j] => i = j

\* C15: the tempo and the volume of music_params each get a description: one of the
\* five of its table for a value of the table, a default one for any other value;
\* never None and never empty.
C15_DescriptionsTotal ==
    Returned("create_music_prompt") =>
        /\ pure.out.tempo_desc # NoText /\ pure.out.tempo_desc[1] # <<>>
        /\ pure.out.volume_desc # NoText /\ pure.out.volume_desc[1] # <<>>
        /\ ~Contains(NoneText, pure.out.main)

\* The lower-cased names of a list.
LowerAll(names) == [i \in 1..Len(names) |-> Lower(names[i])]

\* The clause the instrument list is to give, name by name.
RECURSIVE ClauseNames(_)
ClauseNames(names) ==
    IF Len(names) = 1 THEN names[1]
    ELSE IF Len(names) = 2 THEN names[1] \o AndWord \o names[2]
    ELSE names[1] \o CommaSpace \o
         (IF Len(names) = 3 THEN names[2] \o CommaAnd \o names[3] ELSE ClauseNames(Tail(names)))

\* C16: the instrument clause: none for the empty list, "featuring x" for one name,
\* "featuring x and y" for two, and for three or more the names but the last joined
\* by ", ", then ", and " and the last; the names lower-cased, in the order given,
\* each once.
C16_InstrumentClause ==
    Returned("create_music_prompt") =>
        LET names == pure.arg.instruments
            clause == pure.out.instrument_desc
        IN /\ names = <<>> => clause = <<>>
           /\ names # <<>> => clause = Featuring \o ClauseNames(LowerAll(names))
           /\ Contains(clause \o CommaSpace, pure.out.main)

C16_Witness ==
    /\ Returned("create_music_prompt")
    /\ Len(pure.arg.instruments) >= 3
    /\ pure.out.instrument_desc # <<>>


\* The number of whole 16-bit samples of a prediction.
SampleCount(pred) == Len(pred.raw) \div 2

\* C17: decode_prediction_to_wav_bytes frames valid 16-bit PCM as a WAV of 48000
\* frames a second, 2 channels and 2-byte samples; the payload is the input, whole
\* and in order, when the number of samples is even, and the input without its last
\* sample when it is odd; no error in either case.
C17_FramesPcm ==
    (/\ Returned("decode_prediction_to_wav_bytes")
     /\ pure.arg.b64_ok
     /\ Len(pure.arg.raw) % 2 = 0) =>
        /\ pure.out # None
        /\ pure.out.framerate = 48000
        /\ pure.out.nchannels = 2
        /\ pure.out.sampwidth = 2
        /\ Len(pure.out.data) =
              IF SampleCount(pure.arg) % 2 = 0 THEN Len(pure.arg.raw) ELSE Len(pure.arg.raw) - 2
        /\ \A i \in 1..Len(pure.out.data) : pure.out.data[i] = pure.arg.raw[i]
        /\ pure.out.nframes * 4 = Len(pure.out.data)

C17_Witness ==
    /\ Returned("decode_prediction_to_wav_bytes")
    /\ pure.arg.b64_ok
    /\ Len(pure.arg.raw) = 22
    /\ pure.out # None
    /\ Len(pure.out.data) = 20


\* The questions answered as their key says, one by one down the list.
CorrectByPosition(questions, r) ==
    Cardinality({ i \in 1..Len(questions) : r[i] = questions[i].correct_response })

\* C18: a completed section records total_questions = the length of the lesson's
\* question list and correct_count = the number of list positions whose answer equals
\* the stored correct_response, also when two questions have the same text.
C18_Step ==
    last_run'.event = "complete" =>
        LET questions == test_content[page_number].questions
            section == test_answers'[page_number]
        IN /\ section.total_questions = Len(questions)
           /\ section.correct_count = CorrectByPosition(questions, radio)

C18_ScoredByPosition == [][C18_Step]_vars


\* C19: the summary never fails on an empty partition: for every content of
\* test_answers, also with no section with music or none without, the final page
\* and the performance_analysis of the submitted record are built without error.
C19_SummaryNeverRaises ==
    Returned("render_final_page") => ~pure.out.error

\* The recorded sections of the input with that had_music.
Partition(had_music) ==
    { k \in TestPages :
        pure.arg.answers[k] # Absent /\ pure.arg.answers[k].had_music = had_music }

\* The product of the totals of a set of pages, 1 standing for a total of 0.
RECURSIVE TotalsProduct(_)
TotalsProduct(pages) ==
    IF pages = {} THEN 1
    ELSE LET k == CHOOSE p \in pages : TRUE
             t == pure.arg.answers[k].total_questions
         IN (IF t > 0 THEN t ELSE 1) * TotalsProduct(pages \ {k})

\* The sum of score * 100 / total over a set of pages, times the product of its totals.
RECURSIVE ScaledSum(_, _)
ScaledSum(pages, product) ==
    IF pages = {} THEN 0
    ELSE LET k == CHOOSE p \in pages : TRUE
             sec == pure.arg.answers[k]
         IN (IF sec.total_questions > 0
             THEN sec.correct_count * 100 * (product \div sec.total_questions)
             ELSE 0) + ScaledSum(pages \ {k}, product)

\* The fraction avg is the arithmetic mean of the percentages of the pages.
IsMeanOf(avg, pages) ==
    avg[1] * TotalsProduct(pages) * Cardinality(pages)
        = avg[2] * ScaledSum(pages, TotalsProduct(pages))

\* The case of the example: a baseline of 2 of 3, music sections of 3 of 3 and 4 of 5.
ExampleSections ==
    /\ pure.arg.answers[2] = [correct_count |-> 2, total_questions |-> 3, had_music |-> FALSE]
    /\ pure.arg.answers[3] = [correct_count |-> 3, total_questions |-> 3, had_music |-> TRUE]
    /\ pure.arg.answers[4] = [correct_count |-> 4, total_questions |-> 5, had_music |-> TRUE]

\* C20: with sections on both sides, baseline_avg is the arithmetic mean of the
\* percentages score/total*100 (0 for total = 0) of the sections without music,
\* music_avg the mean of those with music, and the improvement is music_avg -
\* baseline_avg; a baseline of 2/3 with music sections of 100% and 80% gives
\* music_avg 90 and an improvement of about 23.3.
C20_Averages ==
    (/\ Returned("render_final_page")
     /\ Partition(FALSE) # {}
     /\ Partition(TRUE) # {}) =>
        LET base == pure.out.baseline_avg[1]
            mus == pure.out.music_avg[1]
            diff == pure.out.difference[1]
        IN /\ IsMeanOf(base, Partition(FALSE))
           /\ IsMeanOf(mus, Partition(TRUE))
           /\ diff[1] * base[2] * mus[2] = diff[2] * (mus[1] * base[2] - base[1] * mus[2])
           /\ pure.arg.submit =>
                 pure.out.performance_analysis =
                    <<[baseline_avg |-> base, music_avg |-> mus, improvement |-> diff]>>
           /\ ExampleSections =>
                 /\ mus = <<90, 1>>
                 /\ 233 * diff[2] <= 10 * diff[1]
                 /\ 10 * diff[1] < 234 * diff[2]

C20_Witness ==
    /\ Returned("render_final_page")
    /\ ExampleSections
    /\ pure.arg.submit
    /\ pure.out.performance_analysis # <<>>


\* The failures of the request that are not an HTTP error status: the timeout and
\* any other exception of requests.post.
Transient(o) == o.kind \in {"timeout", "error"}

\* C21 as stated: in load_music every failure of the request but a timeout is
\* terminal: the request that met it is the last one and silence is returned.
C21_OnlyTimeoutRetried ==
    \A i \in DOMAIN music.outcomes :
        music.outcomes[i].kind \in {"http_error", "error"} =>
            /\ i = Len(music.outcomes)
            /\ music.pc = "done"
            /\ music.ret \in SilenceAssets

\* C21 amended: in load_music a timeout and any other error raised by the request
\* that is not an HTTP error status are retried, each after one fixed delay, while
\* attempts remain, and give silence on the last attempt; an HTTP error status is
\* terminal at once: no request follows it and silence is returned.
C21_HttpErrorTerminal ==
    /\ \A i \in DOMAIN music.outcomes :
          LET o == music.outcomes[i] IN
          /\ o.kind = "http_error" =>
                /\ i = Len(music.outcomes)
                /\ music.pc = "done"
                /\ music.cause = "http"
                /\ music.ret \in SilenceAssets
          /\ (Transient(o) /\ i < music.max_retries) =>
                \/ Len(music.outcomes) > i
                \/ (music.pc = "loop" /\ music.attempt = i + 1)
          /\ (Transient(o) /\ i = music.max_retries) =>
                /\ music.pc = "done"
                /\ music.ret \in SilenceAssets
    /\ music.sleeps = Cardinality({ i \in DOMAIN music.outcomes :
                                      Transient(music.outcomes[i]) /\ i < music.max_retries })
    /\ music.requests = Len(music.outcomes)

C21_Witness ==
    /\ music.pc = "done"
    /\ music.max_retries = 3
    /\ Len(music.outcomes) = 3
    /\ music.outcomes[1].kind = "error"
    /\ music.outcomes[2].kind = "timeout"
    /\ music.outcomes[3] = [kind |-> "http_error", code |-> 500]
    /\ music.sleeps = 2


\* music_params.seed is a positive integer.
PositiveSeed(mp) == mp.seed # NoSeed /\ mp.seed[1] > 0

\* C22: the request instance of load_music always has prompt, has negative_prompt
\* only when that text is not empty, and has exactly one of seed and sample_count:
\* seed, with the value given, exactly when music_params.seed is a positive integer,
\* and sample_count = 1 otherwise.
C22_RequestInstance ==
    Returned("load_music") =>
        LET instance == pure.out
            keys == DOMAIN pure.out
        IN /\ "prompt" \in keys
           /\ instance["prompt"] # <<>>
           /\ "negative_prompt" \in keys => instance["negative_prompt"] # <<>>
           /\ keys \subseteq {"prompt", "negative_prompt", "seed", "sample_count"}
           /\ ("seed" \in keys) # ("sample_count" \in keys)
           /\ ("seed" \in keys) = PositiveSeed(pure.arg)
           /\ "seed" \in keys => instance["seed"] = pure.arg.seed[1]
           /\ "sample_count" \in keys => instance["sample_count"] = 1

C22_Witness ==
    /\ Returned("load_music")
    /\ pure.arg.seed = <<7>>
    /\ "seed" \in DOMAIN pure.out
    /\ "negative_prompt" \in DOMAIN pure.out
    /\ "sample_count" \notin DOMAIN pure.out


\* The pages whose recorded section has that had_music.
Recorded(had_music) ==
    { k \in TestPages : test_answers[k] # Absent /\ test_answers[k].had_music = had_music }

\* C23: for each page k with 2 <= k < page_number, test_answers has a record of page
\* k, with had_music false for k = 2 and true for k = 3 and 4; so on page 5 there are
\* one section without music and two with, and neither side is empty.
C23_PageFlow ==
    /\ \A k \in TestPages :
          k < page_number =>
              /\ test_answers[k] # Absent
              /\ test_answers[k].had_music = (k \in {3, 4})
    /\ page_number = 5 =>
          /\ Cardinality(Recorded(FALSE)) = 1
          /\ Cardinality(Recorded(TRUE)) = 2
          /\ ~SummaryRaises(test_answers)

C23_Witness ==
    /\ page_number = 5
    /\ \A k \in TestPages : test_answers[k] # Absent
    /\ Recorded(TRUE) = {3, 4}

\* C24, the records: 0 <= correct_count <= total_questions, and total_questions is
\* the length of the question list kept for that page.
C24_Record ==
    \A k \in TestPages :
        test_answers[k] # Absent =>
            /\ 0 <= test_answers[k].correct_count
            /\ test_answers[k].correct_count <= test_answers[k].total_questions
            /\ test_content[k] # Absent
            /\ test_answers[k].total_questions = Len(test_content[k].questions)

\* C24, the writes: the record of page k is written only while page_number = k, by
\* "Complete This Section"; otherwise a record only goes away, with all the others, on
\* a restart.
C24_Step ==
    \A k \in TestPages :
        test_answers'[k] # test_answers[k] =>
            IF test_answers'[k] # Absent
            THEN page_number = k /\ last_run'.event = "complete"
            ELSE last_run'.event = "restart"

\* C24: every stored section record has 0 <= correct_count <= total_questions with
\* total_questions the length of its page's memoized question list, and the record
\* of page k is written only while page_number = k.
C24_RecordsSound == []C24_Record /\ [][C24_Step]_vars

C24_Witness ==
    /\ page_number = 4
    /\ test_answers[3] # Absent
    /\ test_answers[3].total_questions = 2
    /\ test_answers[3].correct_count = 1
    /\ test_answers[2] # Absent
    /\ test_answers[4] = Absent

====
